---------------------------- MODULE Spec2Model ----------------------------
(***************************************************************************)
(* Authentication and account-lockout subsystem of the attendance-tracker  *)
(* backend: registerUser, loginUser, forgotPassword, resetPassword and     *)
(* unlockAccount of the two authController variants, run as concurrent     *)
(* request handlers against the users table.                               *)
(*                                                                         *)
(* A handler is split at its awaited store queries: the step that runs its *)
(* first query (with the synchronous code up to the next write) and the    *)
(* step that runs its write (with the notification and the response).      *)
(* Time is in seconds.  A NULL column or a missing field is the empty      *)
(* string, the empty sequence or the empty set of its type.                *)
(***************************************************************************)
EXTENDS Naturals, Sequences, FiniteSets

(***************************************************************************)
(* Bounds of the model.                                                    *)
(***************************************************************************)
MaxTicks == 2
MaxTokens == 2
MaxAttempts == 4

(***************************************************************************)
(* Settings of the controllers.                                            *)
(***************************************************************************)
MAX_FAILED_ATTEMPTS == 3
LOCK_DURATION_SECONDS == 30
RESET_EXPIRY_SECONDS == 30 * 60

(***************************************************************************)
(* Inputs.  A password is its sequence of characters.                      *)
(***************************************************************************)
Handlers == {1, 2}
Variants == {"backup", "basic"}
Emails == {"a@x.com", "b@x.com"}
Registrable == {"a@x.com"}
NoEmail == ""
BackupEmails == {"a@x.com"}
BackupInputs == {"a@x.com", "A@X.COM", "b@x.com"}
NoPassword == << >>
StrongPassword == <<"A", "b", "c", "1", "2", "3", "!", "@">>
OtherPassword == <<"X", "y", "z", "7", "8", "9", "#", "$">>
WeakPassword == <<"s", "h", "o", "r", "t">>
Passwords == {StrongPassword, OtherPassword, WeakPassword}

LowerChars ==
    {"a", "b", "c", "d", "e", "f", "g", "h", "i", "j", "k", "l", "m",
     "n", "o", "p", "q", "r", "s", "t", "u", "v", "w", "x", "y", "z"}
UpperChars ==
    {"A", "B", "C", "D", "E", "F", "G", "H", "I", "J", "K", "L", "M",
     "N", "O", "P", "Q", "R", "S", "T", "U", "V", "W", "X", "Y", "Z"}
DigitChars == {"0", "1", "2", "3", "4", "5", "6", "7", "8", "9"}
SpecialChars ==
    {"!", "@", "#", "$", "%", "^", "&", "*", "(", ")", "_", "+", "-", "=",
     "[", "]", "{", "}", ";", "'", ":", "\"", "\\", "|", ",", ".", "<", ">",
     "/", "?"}

\* /^(?=.*[a-z])(?=.*[A-Z])(?=.*\d)(?=.*[special]).{8,}$/
isStrongPassword(password) ==
    /\ \E i \in 1..Len(password) : password[i] \in LowerChars
    /\ \E i \in 1..Len(password) : password[i] \in UpperChars
    /\ \E i \in 1..Len(password) : password[i] \in DigitChars
    /\ \E i \in 1..Len(password) : password[i] \in SpecialChars
    /\ Len(password) >= 8

\* utils/hashPassword.js: a one-way digest and its verification.
hashPassword(password) == <<"bcrypt", password>>
comparePassword(password, hash) == hash = <<"bcrypt", password>>

\* crypto.createHash("sha256").update(token).digest("hex")
sha256(token) == <<"sha256", token>>
NoHash == << >>
NoToken == 0

\* jwt.sign({ id, email }, JWT_SECRET, { expiresIn: "15d" })
generateAccessToken(user) == <<"jwt", user.id, user.email>>
NoData == << >>

\* new Date(column): a NULL column reads as the epoch.
DateOf(column) == IF column = {} THEN 0 ELSE CHOOSE t \in column : TRUE

VARIABLES
    variant,        \* the authController variant that is deployed
    users,          \* the users table, in id order
    now,            \* the clock
    ticks,          \* how often the clock has advanced
    issued,         \* how many reset tokens crypto.randomBytes has produced
    mail,           \* the reset links delivered by sendEmail
    consumed,       \* history: the raw tokens a successful reset has used
    req,            \* per handler: the request in flight and its locals
    resp            \* the response the last step sent, if it sent one

vars == <<variant, users, now, ticks, issued, mail, consumed, req, resp>>

(***************************************************************************)
(* The users table.                                                        *)
(***************************************************************************)
\* Fault: the INSERT binds email and backup_email to each other's column.
NewRowSwapped(id, email, hashed, backup_email) ==
    [id |-> id, email |-> backup_email, backup_email |-> email,
     password_hash |-> hashed, failed_login_attempts |-> 0, lock_until |-> {},
     reset_token_hash |-> NoHash, reset_expires |-> {}]

\* INSERT INTO users (email, ..., password_hash, ..., backup_email): the
\* other columns take their defaults.
NewRow(id, email, hashed, backup_email) ==
    [id |-> id, email |-> email, backup_email |-> backup_email,
     password_hash |-> hashed, failed_login_attempts |-> 0, lock_until |-> {},
     reset_token_hash |-> NoHash, reset_expires |-> {}]

\* Fault: the SELECT has lost its WHERE clause.
SelectAnyUser(email) == users

\* SELECT ... FROM users WHERE email = ?
SelectByEmail(email) == SelectSeq(users, LAMBDA u : u.email = email)

\* Variation: a failed attempt increments the counter inside the UPDATE
\* (SET failed_login_attempts = failed_login_attempts + 1).
UpdateLockoutIncrement(id, attempts, lockUntil) ==
    [i \in DOMAIN users |->
        IF users[i].id = id
        THEN [users[i] EXCEPT
                !.failed_login_attempts =
                    IF attempts = 0 THEN 0
                    ELSE users[i].failed_login_attempts + 1,
                !.lock_until = lockUntil]
        ELSE users[i]]

\* UPDATE users SET failed_login_attempts=?, lock_until=? WHERE id=?
UpdateLockout(id, attempts, lockUntil) ==
    [i \in DOMAIN users |->
        IF users[i].id = id
        THEN [users[i] EXCEPT !.failed_login_attempts = attempts,
                              !.lock_until = lockUntil]
        ELSE users[i]]

(***************************************************************************)
(* Requests and responses.                                                 *)
(***************************************************************************)
Request(op, email, password, token, backupEmail) ==
    [op |-> op, email |-> email, password |-> password, token |-> token,
     backupEmail |-> backupEmail]

NoRequest == Request("none", NoEmail, NoPassword, NoToken, NoEmail)

\* A handler's position and locals: rows is the result of its SELECT (for
\* unlockAccount, the rows its UPDATE matched, as they were),
\* isMatch/attempts/stamp/hashed/token what it computed for its write.
Frame(pc, request, rows, isMatch, attempts, stamp, hashed, token) ==
    [pc |-> pc, request |-> request, rows |-> rows, isMatch |-> isMatch,
     attempts |-> attempts, stamp |-> stamp, hashed |-> hashed,
     token |-> token]

Idle == Frame("idle", NoRequest, << >>, FALSE, 0, {}, NoHash, NoToken)

Message(text, seconds) == [text |-> text, seconds |-> seconds]

\* utils/responseHandler.js: { success, message, data } with a status code.
\* request is the request answered, notified the row its handler inserted
\* into the notifications table.
sendResponse(request, status, success, text, data) ==
    [request |-> request, status |-> status, success |-> success,
     message |-> Message(text, 0), data |-> data, notified |-> << >>]

NoResponse == sendResponse(NoRequest, 0, FALSE, "", NoData)

\* Fault: notifyUser lets the failure of its INSERT escape, and the handler
\* ends in the error handler.
notifyUserThrows(r, userId, title, ok) ==
    IF ok THEN [r EXCEPT !.notified = <<userId, title>>]
    ELSE [r EXCEPT !.status = 500, !.success = FALSE,
                   !.message = Message("Internal server error.", 0),
                   !.data = NoData]

\* utils/notifyUser.js: the INSERT INTO notifications may fail, and the
\* failure is caught and logged.
notifyUser(r, userId, title, ok) ==
    IF ok THEN [r EXCEPT !.notified = <<userId, title>>] ELSE r

Init ==
    /\ variant \in Variants
    /\ users = << >>
    /\ now = 1
    /\ ticks = 0
    /\ issued = 0
    /\ mail = {}
    /\ consumed = {}
    /\ req = [h \in Handlers |-> Idle]
    /\ resp = NoResponse

(***************************************************************************)
(* The clock.                                                              *)
(***************************************************************************)
\* The clock advances by one of the durations D.
Tick(D) ==
    /\ ticks < MaxTicks
    /\ \E d \in D : now' = now + d
    /\ ticks' = ticks + 1
    /\ resp' = NoResponse
    /\ UNCHANGED <<variant, users, issued, mail, consumed, req>>


(***************************************************************************)
(* The steps of a handler.                                                 *)
(***************************************************************************)
\* A new request is given the first free handler.
Accept(h) ==
    /\ req[h] = Idle
    /\ \A g \in Handlers : g < h => req[g] # Idle

\* The handler h ends with the response r.
Respond(h, r) ==
    /\ req' = [req EXCEPT ![h] = Idle]
    /\ resp' = r

\* The handler h goes on to its next query with the locals f.
Await(h, f) ==
    /\ req' = [req EXCEPT ![h] = f]
    /\ resp' = NoResponse

(***************************************************************************)
(* registerUser                                                            *)
(***************************************************************************)
\* The validation and the SELECT of an existing account.
registerUserSelect(h, email, password, backup_email) ==
    LET request == Request("register", email, password, NoToken, backup_email)
        existing == SelectByEmail(email)
    IN  /\ Accept(h)
        /\ UNCHANGED <<variant, users, now, ticks, issued, mail, consumed>>
        /\ IF email = NoEmail \/ password = NoPassword
           THEN Respond(h, sendResponse(request, 400, FALSE,
                            "Email and password are required.", NoData))
           ELSE IF variant = "backup" /\ ~isStrongPassword(password)
           THEN Respond(h, sendResponse(request, 400, FALSE,
                            "Password must include uppercase, lowercase, number, and special character.",
                            NoData))
           ELSE IF Len(existing) > 0
           THEN Respond(h, sendResponse(request, 409, FALSE,
                            "User already exists.", NoData))
           ELSE Await(h, Frame("insert", request, << >>, FALSE, 0, {},
                               hashPassword(password), NoToken))

\* Fault: the email column has no UNIQUE index.
NoUniqueIndex(email) == FALSE

\* email VARCHAR(255) UNIQUE NOT NULL: an INSERT of an email that a row
\* holds throws.
UniqueViolation(email) == Len(SelectByEmail(email)) > 0

\* The INSERT, the SELECT of the new id and the welcome notification.  An
\* INSERT that throws goes to the error handler.
registerUserInsert(h) ==
    LET f == req[h]
        request == f.request
        backup_email ==
            IF variant = "backup" THEN request.backupEmail ELSE NoEmail
        id == Len(users) + 1
    IN  /\ f.pc = "insert"
        /\ UNCHANGED <<variant, now, ticks, issued, mail, consumed>>
        /\ IF UniqueViolation(request.email)
           THEN /\ UNCHANGED users
                /\ Respond(h, sendResponse(request, 500, FALSE,
                                "Internal server error.", NoData))
           ELSE /\ users' = Append(users,
                        NewRow(id, request.email, f.hashed, backup_email))
                /\ \E ok \in BOOLEAN :
                      Respond(h, notifyUser(
                          sendResponse(request, 201, TRUE,
                              "User registered successfully.", NoData),
                          id, "Welcome!", ok))

(***************************************************************************)
(* loginUser                                                               *)
(***************************************************************************)
\* The 401 messages: for an email without an account, and for a wrong
\* password below the threshold.
InvalidCredentialsText == "Invalid credentials."
WrongPasswordText == "Invalid email or password."

LockedText ==
    IF variant = "backup" THEN "Account locked. Try again in"
    ELSE "Account temporarily locked. Try again in"

LockedOutText ==
    IF variant = "backup"
    THEN "Account locked for 30s after 3 failed attempts."
    ELSE "Account locked for 30 seconds after 3 failed attempts."

\* The response to a request that finds the account locked.
LockedResponse(request, user) ==
    [sendResponse(request, 423, FALSE, LockedText, NoData)
        EXCEPT !.message.seconds = DateOf(user.lock_until) - now]

\* Fault: the lock check is left out.
IsLockedNever(user) == FALSE

\* Fault: the lock check compares the wrong way round.
IsLockedElapsed(user) ==
    user.lock_until # {} /\ DateOf(user.lock_until) < now

\* Fault: the lock still holds at the instant lock_until.
IsLockedInclusive(user) ==
    user.lock_until # {} /\ DateOf(user.lock_until) >= now

\* user.lock_until && new Date(user.lock_until) > new Date()
IsLocked(user) == user.lock_until # {} /\ DateOf(user.lock_until) > now

\* Fault: the count starts again once a lock has been served.
FailedAttemptsRestarted(user) ==
    IF user.lock_until # {} THEN 1 ELSE user.failed_login_attempts + 1

\* (user.failed_login_attempts || 0) + 1
FailedAttempts(user) == user.failed_login_attempts + 1

\* Fault: the lock is set one attempt late.
LockUntilLate(attempts) ==
    IF attempts > MAX_FAILED_ATTEMPTS
    THEN {now + LOCK_DURATION_SECONDS} ELSE {}

\* The lock a failed attempt sets: none below MAX_FAILED_ATTEMPTS.
LockUntil(attempts) ==
    IF attempts >= MAX_FAILED_ATTEMPTS
    THEN {now + LOCK_DURATION_SECONDS} ELSE {}

\* The SELECT, the lock check and the password comparison.
loginUserSelect(h, email, password) ==
    LET request == Request("login", email, password, NoToken, NoEmail)
        rows == SelectByEmail(email)
        user == rows[1]
        isMatch == comparePassword(password, user.password_hash)
        attempts == FailedAttempts(user)
        lockUntil == LockUntil(attempts)
    IN  /\ Accept(h)
        /\ UNCHANGED <<variant, users, now, ticks, issued, mail, consumed>>
        /\ IF email = NoEmail \/ password = NoPassword
           THEN Respond(h, sendResponse(request, 400, FALSE,
                            "Email and password are required.", NoData))
           ELSE IF Len(rows) = 0
           THEN Respond(h, sendResponse(request, 401, FALSE,
                            InvalidCredentialsText, NoData))
           ELSE IF IsLocked(user)
           THEN Respond(h, LockedResponse(request, user))
           ELSE IF ~isMatch
           THEN /\ attempts <= MaxAttempts
                /\ Await(h, Frame("update", request, rows, FALSE, attempts,
                                  lockUntil, NoHash, NoToken))
           ELSE Await(h, Frame("update", request, rows, TRUE, 0, {},
                               NoHash, NoToken))

\* The UPDATE of the lockout columns, the notification and the response.
loginUserUpdate(h) ==
    LET f == req[h]
        request == f.request
        user == f.rows[1]
    IN  /\ f.pc = "update"
        /\ request.op = "login"
        /\ UNCHANGED <<variant, now, ticks, issued, mail, consumed>>
        /\ users' = UpdateLockout(user.id, f.attempts, f.stamp)
        /\ IF ~f.isMatch
           THEN Respond(h, sendResponse(request, 401, FALSE,
                        IF f.attempts >= MAX_FAILED_ATTEMPTS
                        THEN LockedOutText ELSE WrongPasswordText,
                        NoData))
           ELSE \E ok \in BOOLEAN :
                   Respond(h, notifyUser(
                       sendResponse(request, 200, TRUE, "Login successful.",
                                    generateAccessToken(user)),
                       user.id, "Login Successful", ok))

(***************************************************************************)
(* forgotPassword                                                          *)
(***************************************************************************)
GenericText == "If that email exists, a reset link was sent."

\* Fault: the UPDATE writes the digest and leaves reset_expires as it is.
UpdateResetTokenHashOnly(id, tokenHash, tokenExpiry) ==
    [i \in DOMAIN users |->
        IF users[i].id = id
        THEN [users[i] EXCEPT !.reset_token_hash = tokenHash]
        ELSE users[i]]

\* UPDATE users SET reset_token_hash=?, reset_expires=? WHERE id=?
UpdateResetToken(id, tokenHash, tokenExpiry) ==
    [i \in DOMAIN users |->
        IF users[i].id = id
        THEN [users[i] EXCEPT !.reset_token_hash = tokenHash,
                              !.reset_expires = tokenExpiry]
        ELSE users[i]]

\* String.prototype.toLowerCase on the addresses of the model.
toLowerCase(s) == IF s = "A@X.COM" THEN "a@x.com" ELSE s

\* The reset link, as the address and the raw token it embeds.
ResetLink(token, email) == <<"resetLink", token, email>>

\* The SELECT of the account and the generation of the token.
forgotPasswordSelect(h, email, backupEmail) ==
    LET request == Request("forgot", email, NoPassword, NoToken,
                           IF variant = "backup" THEN backupEmail ELSE NoEmail)
        rows == SelectByEmail(email)
        token == issued + 1
    IN  /\ Accept(h)
        /\ UNCHANGED <<variant, users, now, ticks, mail, consumed>>
        /\ IF email = NoEmail
           THEN /\ UNCHANGED issued
                /\ Respond(h, sendResponse(request, 400, FALSE,
                                "Email is required.", NoData))
           ELSE IF Len(rows) = 0
           THEN /\ UNCHANGED issued
                /\ Respond(h, sendResponse(request, 200, TRUE, GenericText,
                                NoData))
           ELSE /\ issued < MaxTokens
                /\ issued' = token
                /\ Await(h, Frame("update", request, rows, FALSE, 0,
                                  {now + RESET_EXPIRY_SECONDS}, sha256(token),
                                  token))

\* The UPDATE of the token columns, the choice of the target address, the
\* delivery of the link, the notification and the response.
forgotPasswordUpdate(h) ==
    LET f == req[h]
        request == f.request
        user == f.rows[1]
        backupEmail == request.backupEmail
        targetEmail ==
            IF backupEmail # NoEmail THEN user.backup_email ELSE user.email
    IN  /\ f.pc = "update"
        /\ request.op = "forgot"
        /\ UNCHANGED <<variant, now, ticks, issued, consumed>>
        /\ users' = UpdateResetToken(user.id, f.hashed, f.stamp)
        /\ IF variant = "basic"
           THEN /\ UNCHANGED mail
                /\ \E ok \in BOOLEAN :
                      Respond(h, notifyUser(
                          sendResponse(request, 200, TRUE,
                              "Password reset link generated.",
                              ResetLink(f.token, request.email)),
                          user.id, "Password Reset Requested", ok))
           ELSE IF /\ backupEmail # NoEmail
                   /\ \/ user.backup_email = NoEmail
                      \/ toLowerCase(user.backup_email)
                            # toLowerCase(backupEmail)
           THEN /\ UNCHANGED mail
                /\ Respond(h, sendResponse(request, 200, TRUE, GenericText,
                                NoData))
           ELSE /\ \E sent \in BOOLEAN :
                      mail' = IF sent
                              THEN mail \cup {ResetLink(f.token, targetEmail)}
                              ELSE mail
                /\ \E ok \in BOOLEAN :
                      Respond(h, notifyUser(
                          sendResponse(request, 200, TRUE, GenericText, NoData),
                          user.id, "Password Reset Requested", ok))

(***************************************************************************)
(* resetPassword                                                           *)
(***************************************************************************)
\* SELECT * FROM users WHERE email = ? OR backup_email = ?
SelectByEmailOrBackup(email) ==
    SelectSeq(users, LAMBDA u : u.email = email \/ u.backup_email = email)

\* SELECT * FROM users WHERE email = ? AND reset_token_hash = ?
SelectByEmailAndToken(email, tokenHash) ==
    SelectSeq(users,
              LAMBDA u : u.email = email /\ u.reset_token_hash = tokenHash)

\* Fault: the UPDATE writes the password and keeps the token columns.
UpdatePasswordOnly(id, hashedNew) ==
    [i \in DOMAIN users |->
        IF users[i].id = id
        THEN [users[i] EXCEPT !.password_hash = hashedNew]
        ELSE users[i]]

\* Fault: the UPDATE of the password also clears the lockout columns.
UpdatePasswordAndUnlock(id, hashedNew) ==
    [i \in DOMAIN users |->
        IF users[i].id = id
        THEN [users[i] EXCEPT !.password_hash = hashedNew,
                              !.reset_token_hash = NoHash,
                              !.reset_expires = {},
                              !.failed_login_attempts = 0,
                              !.lock_until = {}]
        ELSE users[i]]

\* UPDATE users SET password_hash=?, reset_token_hash=NULL,
\* reset_expires=NULL WHERE id=?
UpdatePassword(id, hashedNew) ==
    [i \in DOMAIN users |->
        IF users[i].id = id
        THEN [users[i] EXCEPT !.password_hash = hashedNew,
                              !.reset_token_hash = NoHash,
                              !.reset_expires = {}]
        ELSE users[i]]

\* Fault: the expiry check compares the wrong way round.
TokenExpiredLater(user) == DateOf(user.reset_expires) > now

\* new Date(user.reset_expires) < new Date()
TokenExpired(user) == DateOf(user.reset_expires) < now

\* Fault: the token check has lost the comparison of the digests.
TokenRejectedUncompared(user, tokenHash) ==
    \/ user.reset_token_hash = NoHash
    \/ TokenExpired(user)

\* The token check of the variant with backup addresses.
TokenRejected(user, tokenHash) ==
    \/ user.reset_token_hash = NoHash
    \/ user.reset_token_hash # tokenHash
    \/ TokenExpired(user)

\* The validation, the SELECT and the token check.  The SELECT has no ORDER
\* BY: rows[0] is any of the rows it matches.
resetPasswordSelect(h, email, token, newPassword) ==
    LET request == Request("reset", email, newPassword, token, NoEmail)
        tokenHash == sha256(token)
        rows == IF variant = "backup" THEN SelectByEmailOrBackup(email)
                ELSE SelectByEmailAndToken(email, tokenHash)
        next(user) == Frame("update", request, <<user>>, FALSE, 0, {},
                            hashPassword(newPassword), NoToken)
    IN  /\ Accept(h)
        /\ UNCHANGED <<variant, users, now, ticks, issued, mail, consumed>>
        /\ IF email = NoEmail \/ token = NoToken \/ newPassword = NoPassword
           THEN Respond(h, sendResponse(request, 400, FALSE,
                            IF variant = "backup"
                            THEN "Email, token and new password are required."
                            ELSE "Email, token, and new password are required.",
                            NoData))
           ELSE IF variant = "backup" /\ ~isStrongPassword(newPassword)
           THEN Respond(h, sendResponse(request, 400, FALSE,
                            "Password must include uppercase, lowercase, number, and special character.",
                            NoData))
           ELSE IF Len(rows) = 0
           THEN Respond(h, sendResponse(request, 400, FALSE,
                            IF variant = "backup"
                            THEN "Invalid or expired reset details."
                            ELSE "Invalid or expired token.", NoData))
           ELSE \E i \in DOMAIN rows :
                   IF variant = "backup"
                   THEN IF TokenRejected(rows[i], tokenHash)
                        THEN Respond(h, sendResponse(request, 400, FALSE,
                                        "Invalid or expired token.", NoData))
                        ELSE Await(h, next(rows[i]))
                   ELSE IF TokenExpired(rows[i])
                        THEN Respond(h, sendResponse(request, 400, FALSE,
                                        "Reset token has expired.", NoData))
                        ELSE Await(h, next(rows[i]))

\* The UPDATE of the password, the notification and the response.
resetPasswordUpdate(h) ==
    LET f == req[h]
        request == f.request
        user == f.rows[1]
    IN  /\ f.pc = "update"
        /\ request.op = "reset"
        /\ UNCHANGED <<variant, now, ticks, issued, mail>>
        /\ users' = UpdatePassword(user.id, f.hashed)
        /\ consumed' = consumed \cup {request.token}
        /\ \E ok \in BOOLEAN :
              Respond(h, notifyUser(
                  sendResponse(request, 200, TRUE,
                               "Password reset successful.", NoData),
                  user.id, "Password Reset", ok))

(***************************************************************************)
(* unlockAccount                                                           *)
(***************************************************************************)
\* Fault: the UPDATE has lost its WHERE clause.
UnlockAll(email) ==
    [i \in DOMAIN users |->
        [users[i] EXCEPT !.failed_login_attempts = 0, !.lock_until = {}]]

\* Fault: the UPDATE clears lock_until and keeps the counter.
UnlockLockOnly(email) ==
    [i \in DOMAIN users |->
        IF users[i].email = email
        THEN [users[i] EXCEPT !.lock_until = {}]
        ELSE users[i]]

\* Fault: the UPDATE resets the counter and keeps lock_until.
UnlockCounterOnly(email) ==
    [i \in DOMAIN users |->
        IF users[i].email = email
        THEN [users[i] EXCEPT !.failed_login_attempts = 0]
        ELSE users[i]]

\* UPDATE users SET failed_login_attempts=0, lock_until=NULL WHERE email=?
UnlockByEmail(email) ==
    [i \in DOMAIN users |->
        IF users[i].email = email
        THEN [users[i] EXCEPT !.failed_login_attempts = 0, !.lock_until = {}]
        ELSE users[i]]

\* The validation and the UPDATE.
unlockAccountUpdate(h, email) ==
    LET request == Request("unlock", email, NoPassword, NoToken, NoEmail)
    IN  /\ Accept(h)
        /\ UNCHANGED <<variant, now, ticks, issued, mail, consumed>>
        /\ IF email = NoEmail
           THEN /\ UNCHANGED users
                /\ Respond(h, sendResponse(request, 400, FALSE,
                                "Email is required.", NoData))
           ELSE /\ users' = UnlockByEmail(email)
                /\ Await(h, Frame("select", request, SelectByEmail(email),
                                  FALSE, 0, {}, NoHash, NoToken))

\* The SELECT of the id, the notification and the response.
unlockAccountSelect(h) ==
    LET f == req[h]
        request == f.request
        rows == SelectByEmail(request.email)
        done == sendResponse(request, 200, TRUE,
                             "Account unlocked successfully.", NoData)
    IN  /\ f.pc = "select"
        /\ UNCHANGED <<variant, users, now, ticks, issued, mail, consumed>>
        /\ IF Len(rows) > 0
           THEN \E ok \in BOOLEAN :
                   Respond(h, notifyUser(done, rows[1].id,
                                         "Account Unlocked", ok))
           ELSE Respond(h, done)

(***************************************************************************)
(* changePassword, behind verifyToken: req.user is the account of a token.  *)
(***************************************************************************)
\* Fault: changePassword stores the new password as it came.
storePlain(password) == <<"plain", password>>

\* bcrypt.hash(newPassword, 10) and bcrypt.compare(currentPassword, hash)
bcryptHash(password) == <<"bcrypt", password>>
bcryptCompare(password, hash) == hash = <<"bcrypt", password>>

\* SELECT password_hash FROM users WHERE id = ?
SelectById(id) == SelectSeq(users, LAMBDA u : u.id = id)

\* UPDATE users SET password_hash = ? WHERE id = ?
UpdatePasswordById(id, hashed) ==
    [i \in DOMAIN users |->
        IF users[i].id = id
        THEN [users[i] EXCEPT !.password_hash = hashed]
        ELSE users[i]]

\* The validation, the SELECT and the comparison of the current password.
changePasswordSelect(h, userId, currentPassword, newPassword) ==
    LET rows == SelectById(userId)
        request == Request("change",
                           IF Len(rows) > 0 THEN rows[1].email ELSE NoEmail,
                           newPassword, NoToken, NoEmail)
    IN  /\ Accept(h)
        /\ UNCHANGED <<variant, users, now, ticks, issued, mail, consumed>>
        /\ IF currentPassword = NoPassword \/ newPassword = NoPassword
           THEN Respond(h, sendResponse(request, 400, FALSE,
                            "Both current and new passwords are required.",
                            NoData))
           ELSE IF Len(rows) = 0
           THEN Respond(h, sendResponse(request, 404, FALSE,
                            "User not found.", NoData))
           ELSE IF ~bcryptCompare(currentPassword, rows[1].password_hash)
           THEN Respond(h, sendResponse(request, 401, FALSE,
                            "Current password is incorrect.", NoData))
           ELSE Await(h, Frame("update", request, rows, TRUE, 0, {},
                               bcryptHash(newPassword), NoToken))

\* The UPDATE of the password and the response.
changePasswordUpdate(h) ==
    LET f == req[h]
        request == f.request
        user == f.rows[1]
    IN  /\ f.pc = "update"
        /\ request.op = "change"
        /\ UNCHANGED <<variant, now, ticks, issued, mail, consumed>>
        /\ users' = UpdatePasswordById(user.id, f.hashed)
        /\ Respond(h, sendResponse(request, 200, TRUE,
                        "Password updated successfully.", NoData))

(***************************************************************************)
(* The operations, for the handlers of H and inputs from the given sets.   *)
(***************************************************************************)
ForgedToken == MaxTokens + 1

Register(H, E, P, B) ==
    \/ \E h \in H, email \in E, password \in P, backup_email \in B :
            registerUserSelect(h, email, password, backup_email)
    \/ \E h \in H : registerUserInsert(h)

Login(H, E, P) ==
    \/ \E h \in H, email \in E, password \in P :
            loginUserSelect(h, email, password)
    \/ \E h \in H : loginUserUpdate(h)

Forgot(H, E, B) ==
    \/ \E h \in H, email \in E, backupEmail \in B :
            forgotPasswordSelect(h, email, backupEmail)
    \/ \E h \in H : forgotPasswordUpdate(h)

Reset(H, E, P) ==
    \/ \E h \in H, email \in E, token \in 1..issued \cup {ForgedToken},
          newPassword \in P :
            resetPasswordSelect(h, email, token, newPassword)
    \/ \E h \in H : resetPasswordUpdate(h)

Unlock(H, E) ==
    \/ \E h \in H, email \in E : unlockAccountUpdate(h, email)
    \/ \E h \in H : unlockAccountSelect(h)

\* The caller holds the token of an account of the table.
Change(H, C, P) ==
    \/ \E h \in H, userId \in 1..Len(users), currentPassword \in C,
          newPassword \in P :
            changePasswordSelect(h, userId, currentPassword, newPassword)
    \/ \E h \in H : changePasswordUpdate(h)

(***************************************************************************)
(* The system: concurrent handlers serve every operation, and time passes. *)
(***************************************************************************)
AnyPassword == Passwords \cup {NoPassword}
Durations == {LOCK_DURATION_SECONDS, RESET_EXPIRY_SECONDS}

Next ==
    \/ Tick(Durations)
    \/ Register(Handlers, Registrable, AnyPassword, BackupEmails \cup {NoEmail})
    \/ Login(Handlers, Emails, AnyPassword)
    \/ Forgot(Handlers, Emails \cup {NoEmail}, BackupInputs \cup {NoEmail})
    \/ Reset(Handlers, Emails, AnyPassword)
    \/ Unlock(Handlers, Emails \cup {NoEmail})
    \/ Change(Handlers, AnyPassword, AnyPassword)

Spec == Init /\ [][Next]_vars

\* Registration, login and unlock by concurrent handlers: the lockout
\* columns.
NextLockout ==
    \/ Tick({LOCK_DURATION_SECONDS})
    \/ Register(Handlers, Registrable,
                {StrongPassword, OtherPassword, NoPassword}, {NoEmail})
    \/ Login(Handlers, Emails, {StrongPassword, OtherPassword, NoPassword})
    \/ Unlock(Handlers, Emails \cup {NoEmail})

Lockout == Init /\ [][NextLockout]_vars

\* Registration and password recovery, one request after the other: the
\* reset-token columns.
NextRecovery ==
    \/ Tick(Durations)
    \/ Register({1}, Registrable, {StrongPassword, WeakPassword, NoPassword},
                BackupEmails \cup {NoEmail})
    \/ Forgot({1}, Emails \cup {NoEmail}, BackupInputs \cup {NoEmail})
    \/ Reset({1}, Registrable, {OtherPassword, WeakPassword, NoPassword})

Recovery == Init /\ [][NextRecovery]_vars

\* The five operations of the router, one request after the other, at one
\* instant: what each writes and answers.
NextService ==
    \/ Register({1}, Registrable, {StrongPassword, NoPassword},
                BackupEmails \cup {NoEmail})
    \/ Login({1}, Emails, {StrongPassword, OtherPassword})
    \/ Forgot({1}, Emails, BackupInputs \cup {NoEmail})
    \/ Reset({1}, Registrable, {OtherPassword})
    \/ Unlock({1}, Emails)

Service == Init /\ [][NextService]_vars

\* The operations that write a secret, one request after the other.
NextCredentials ==
    \/ Register({1}, Registrable, {StrongPassword, WeakPassword}, {NoEmail})
    \/ Forgot({1}, Registrable, {NoEmail})
    \/ Reset({1}, Registrable, {OtherPassword, WeakPassword})
    \/ Change({1}, {StrongPassword, OtherPassword, NoPassword},
              {StrongPassword, WeakPassword})

Credentials == Init /\ [][NextCredentials]_vars

\* Password recovery by concurrent handlers.
NextRace ==
    \/ Tick({RESET_EXPIRY_SECONDS})
    \/ Register(Handlers, Registrable, {StrongPassword}, {NoEmail})
    \/ Forgot(Handlers, Registrable, {NoEmail})
    \/ Reset(Handlers, Registrable, {OtherPassword})

Race == Init /\ [][NextRace]_vars

\* Two accounts, of which either may name "a@x.com" as its backup address,
\* and one handler at a time.
NextShared ==
    \/ Tick({RESET_EXPIRY_SECONDS})
    \/ Register({1}, Emails, {StrongPassword}, BackupEmails \cup {NoEmail})
    \/ Forgot({1}, Emails, BackupEmails \cup {NoEmail})
    \/ Reset({1}, Emails, {OtherPassword})

Shared == Init /\ [][NextShared]_vars

\* Concurrent logins that all present a wrong password: nothing resets the
\* counter.
NextGuessing ==
    \/ Tick({LOCK_DURATION_SECONDS})
    \/ Register(Handlers, Registrable, {StrongPassword}, {NoEmail})
    \/ Login(Handlers, Emails, {OtherPassword})

Guessing == Init /\ [][NextGuessing]_vars

(***************************************************************************)
(* Properties of the lockout columns, of the behaviours of Lockout.        *)
(***************************************************************************)
LoginPasswords == {StrongPassword, OtherPassword}

\* The row of the table t with the given id.
RowById(t, id) == t[CHOOSE i \in DOMAIN t : t[i].id = id]

\* The handler h holds a login that is about to run its UPDATE.
LoginPending(h) == req[h].pc = "update" /\ req[h].request.op = "login"

\* The account of email exists, and password is its password.
Correct(email, password) ==
    /\ Len(SelectByEmail(email)) > 0
    /\ comparePassword(password, SelectByEmail(email)[1].password_hash)

\* C1: the failed attempt that brings the counter to MAX_FAILED_ATTEMPTS
\* writes a lock with it; and a login with the correct password on an account
\* whose counter is at MAX_FAILED_ATTEMPTS or more, made while now is before
\* lock_until, is answered 423 by its first step, which writes nothing: the
\* counter is as it was.
LockedLoginRejected ==
    [][\A h \in Handlers :
        /\ (loginUserUpdate(h) /\ ~req[h].isMatch
                /\ req[h].attempts >= MAX_FAILED_ATTEMPTS)
            => LET after == RowById(users', req[h].rows[1].id)
               IN  /\ after.failed_login_attempts = req[h].attempts
                   /\ after.lock_until # {}
                   /\ after.lock_until = req[h].stamp
        /\ \A email \in Emails, password \in LoginPasswords :
            (/\ Correct(email, password)
             /\ SelectByEmail(email)[1].failed_login_attempts
                    >= MAX_FAILED_ATTEMPTS
             /\ now < DateOf(SelectByEmail(email)[1].lock_until)
             /\ loginUserSelect(h, email, password))
            => /\ resp'.status = 423
               /\ resp'.success = FALSE
               /\ resp'.data = NoData
               /\ users' = users
               /\ req'[h] = Idle
      ]_vars

\* A login with the correct password has just been answered 423, and the
\* account's counter stands at MAX_FAILED_ATTEMPTS.
LockedLoginRejectedWitness ==
    /\ resp.request.op = "login"
    /\ resp.status = 423
    /\ Correct(resp.request.email, resp.request.password)
    /\ LET user == SelectByEmail(resp.request.email)[1]
       IN  /\ user.failed_login_attempts = MAX_FAILED_ATTEMPTS
           /\ now < DateOf(user.lock_until)

\* C2: a login with the correct password on an account whose lock_until is
\* set and not after now goes on to the success path without any step that
\* clears the lock first; and the UPDATE of a login whose password matched
\* leaves the counter 0 and lock_until NULL and answers 200 with a token.
ExpiredLockLoginSucceeds ==
    [][\A h \in Handlers :
        /\ \A email \in Emails, password \in LoginPasswords :
            (/\ Correct(email, password)
             /\ SelectByEmail(email)[1].lock_until # {}
             /\ now >= DateOf(SelectByEmail(email)[1].lock_until)
             /\ loginUserSelect(h, email, password))
            => /\ users' = users
               /\ req'[h].pc = "update"
               /\ req'[h].isMatch
        /\ (loginUserUpdate(h) /\ req[h].isMatch)
            => LET after == RowById(users', req[h].rows[1].id)
               IN  /\ after.failed_login_attempts = 0
                   /\ after.lock_until = {}
                   /\ resp'.status = 200
                   /\ resp'.success
                   /\ resp'.data # NoData
      ]_vars

\* A login has matched the password of an account it read with a lock that
\* had run out, and the lock is still in the table.
ExpiredLockLoginSucceedsWitness ==
    \E h \in Handlers :
        /\ LoginPending(h)
        /\ req[h].isMatch
        /\ req[h].rows[1].failed_login_attempts >= MAX_FAILED_ATTEMPTS
        /\ req[h].rows[1].lock_until # {}
        /\ DateOf(req[h].rows[1].lock_until) <= now
        /\ RowById(users, req[h].rows[1].id) = req[h].rows[1]

\* What a login that is about to write its success has established: the row
\* it read is the account of the request's email, the request's password
\* verifies against that row's password_hash, and the row carries no lock
\* that is still in force.
Verified(f) ==
    /\ Len(f.rows) > 0
    /\ f.rows[1].email = f.request.email
    /\ \E i \in DOMAIN users : users[i].email = f.request.email
    /\ comparePassword(f.request.password, f.rows[1].password_hash)
    /\ ~(f.rows[1].lock_until # {} /\ DateOf(f.rows[1].lock_until) > now)

\* C3: every login that holds a matched password has read an existing
\* account of the request's email, without a lock in force, whose
\* password_hash verifies the request's password; and a response to a login
\* carries a token only when it is the 200 sent by such a login, the token
\* being that account's.
TokenOnlyForVerifiedLogin ==
    [][/\ \A h \in Handlers :
            (LoginPending(h)' /\ req'[h].isMatch) => Verified(req[h])'
       /\ (resp'.request.op = "login" /\ resp'.data # NoData)
            => \E h \in Handlers :
                  /\ LoginPending(h)
                  /\ req[h].isMatch
                  /\ req[h].request = resp'.request
                  /\ req'[h] = Idle
                  /\ resp'.status = 200
                  /\ resp'.data = generateAccessToken(req[h].rows[1])
      ]_vars

\* A login has just been answered with a token.
TokenOnlyForVerifiedLoginWitness ==
    /\ resp.request.op = "login"
    /\ resp.status = 200
    /\ resp.data # NoData
    /\ Correct(resp.request.email, resp.request.password)

\* C4: when a registration with a strong password has just been answered
\* 201, the account is in the table with a password_hash that verifies the
\* password, a counter of 0 and no lock; a login with the same email and
\* password that starts next matches the password; and the UPDATE of a login
\* that matched answers 200 with a token that is not empty.
RegisterLoginRoundTrip ==
    [][/\ (/\ resp'.request.op = "register"
           /\ resp'.status = 201
           /\ isStrongPassword(resp'.request.password))
            => /\ Len(SelectSeq(users',
                        LAMBDA u : u.email = resp'.request.email)) = 1
               /\ \E i \in DOMAIN users' :
                    /\ users'[i].email = resp'.request.email
                    /\ comparePassword(resp'.request.password,
                                       users'[i].password_hash)
                    /\ users'[i].failed_login_attempts = 0
                    /\ users'[i].lock_until = {}
       /\ \A h \in Handlers :
            /\ (/\ resp.request.op = "register"
                /\ resp.status = 201
                /\ isStrongPassword(resp.request.password)
                /\ loginUserSelect(h, resp.request.email,
                                   resp.request.password))
                => /\ req'[h].pc = "update"
                   /\ req'[h].isMatch
                   /\ req'[h].attempts = 0
            /\ (loginUserUpdate(h) /\ req[h].isMatch)
                => /\ resp'.status = 200
                   /\ resp'.data = generateAccessToken(req[h].rows[1])
                   /\ resp'.data # NoData
                   /\ Len(resp'.data) > 0
      ]_vars

\* A login with the password of an account that nothing has touched since
\* its registration has matched the password, no other request being served.
RegisterLoginRoundTripWitness ==
    \E h \in Handlers :
        /\ LoginPending(h)
        /\ req[h].isMatch
        /\ isStrongPassword(req[h].request.password)
        /\ \A g \in Handlers \ {h} : req[g] = Idle
        /\ ticks = 0
        /\ users = req[h].rows
        /\ users[1].failed_login_attempts = 0
        /\ users[1].lock_until = {}

\* C8: the UPDATE of unlockAccount leaves every account of the email with a
\* counter of 0 and lock_until NULL, and no other row changed; a login with
\* the correct password on an account with a counter of 0 and no lock matches
\* the password whatever the clock says; and the UPDATE of a login that
\* matched answers 200 with a token.
UnlockThenLoginSucceeds ==
    [][\A h \in Handlers :
        /\ \A email \in Emails :
            unlockAccountUpdate(h, email)
            => /\ DOMAIN users' = DOMAIN users
               /\ \A i \in DOMAIN users :
                    IF users[i].email = email
                    THEN /\ users'[i].failed_login_attempts = 0
                         /\ users'[i].lock_until = {}
                         /\ users'[i].password_hash = users[i].password_hash
                    ELSE users'[i] = users[i]
        /\ \A email \in Emails, password \in LoginPasswords :
            (/\ Correct(email, password)
             /\ SelectByEmail(email)[1].failed_login_attempts = 0
             /\ SelectByEmail(email)[1].lock_until = {}
             /\ loginUserSelect(h, email, password))
            => /\ req'[h].pc = "update"
               /\ req'[h].isMatch
        /\ (loginUserUpdate(h) /\ req[h].isMatch)
            => /\ resp'.status = 200
               /\ resp'.success
               /\ resp'.data # NoData
               /\ RowById(users', req[h].rows[1].id).lock_until = {}
      ]_vars

\* An unlock has cleared an account whose counter stood at
\* MAX_FAILED_ATTEMPTS with a lock that is still in the future, and a login
\* that started after it has matched the password.
UnlockThenLoginSucceedsWitness ==
    \E h \in Handlers, g \in Handlers :
        /\ req[h].pc = "select"
        /\ req[h].request.op = "unlock"
        /\ Len(req[h].rows) > 0
        /\ req[h].rows[1].failed_login_attempts = MAX_FAILED_ATTEMPTS
        /\ DateOf(req[h].rows[1].lock_until) > now
        /\ LoginPending(g)
        /\ req[g].isMatch
        /\ req[g].request.email = req[h].request.email
        /\ req[g].rows[1].failed_login_attempts = 0
        /\ req[g].rows[1].lock_until = {}

\* The lockout columns of every row of the table t agree: a lock only with
\* a counter at MAX_FAILED_ATTEMPTS or more.
Consistent(t) ==
    \A i \in DOMAIN t :
        t[i].lock_until # {} => t[i].failed_login_attempts >= MAX_FAILED_ATTEMPTS

\* C10: in every state, whatever the handlers interleave, a row has a
\* lock_until only with a counter at MAX_FAILED_ATTEMPTS or more; and a step
\* that writes a row and leaves its counter 0 leaves its lock_until NULL.
LockoutColumnsConsistent ==
    /\ Consistent(users)
    /\ [][/\ Consistent(users')
          /\ \A i \in DOMAIN users' :
                (/\ (i \notin DOMAIN users \/ users'[i] # users[i])
                 /\ users'[i].failed_login_attempts = 0)
                => users'[i].lock_until = {}
         ]_vars

\* An account is locked while one handler is about to write a counter below
\* MAX_FAILED_ATTEMPTS that it computed before the lock, and another handler
\* is serving a request too.
LockoutColumnsConsistentWitness ==
    /\ \A h \in Handlers : req[h] # Idle
    /\ \E i \in DOMAIN users :
          /\ users[i].lock_until # {}
          /\ users[i].failed_login_attempts >= MAX_FAILED_ATTEMPTS
          /\ \E h \in Handlers :
                /\ LoginPending(h)
                /\ req[h].rows[1].id = users[i].id
                /\ ~req[h].isMatch
                /\ req[h].attempts < MAX_FAILED_ATTEMPTS

(***************************************************************************)
(* Properties of password recovery, of the behaviours of Recovery.         *)
(***************************************************************************)
ResetPasswords == {OtherPassword, WeakPassword}
ResetTokens == 1..ForgedToken

\* C5: every 200 that answers forgotPassword has the one generic message and
\* no data, whether the email is registered or not, the backup address
\* matches or not, and the link was delivered or not.
ForgotResponseGeneric ==
    (resp.request.op = "forgot" /\ resp.status = 200)
        => /\ resp.success
           /\ resp.message = Message(GenericText, 0)
           /\ resp.data = NoData

\* C6: the UPDATE of a reset leaves reset_token_hash and reset_expires of
\* its account NULL; and a reset that presents a token which a successful
\* reset has used is answered 400 by its first step, which writes nothing,
\* the message being the one of an invalid token when the new password is
\* strong.
ResetTokenSingleUse ==
    [][\A h \in {1} :
        /\ resetPasswordUpdate(h)
            => LET after == RowById(users', req[h].rows[1].id)
               IN  /\ after.reset_token_hash = NoHash
                   /\ after.reset_expires = {}
                   /\ after.password_hash = req[h].hashed
                   /\ resp'.status = 200
        /\ \A email \in Registrable, token \in consumed,
              newPassword \in ResetPasswords :
            resetPasswordSelect(h, email, token, newPassword)
            => /\ resp'.status = 400
               /\ resp'.success = FALSE
               /\ users' = users
               /\ req'[h] = Idle
               /\ isStrongPassword(newPassword)
                    => resp'.message.text = "Invalid or expired token."
      ]_vars

\* A reset with a strong new password and a token that an earlier reset of
\* the same account used has just been answered 400.
ResetTokenSingleUseWitness ==
    /\ resp.request.op = "reset"
    /\ resp.status = 400
    /\ resp.request.token \in consumed
    /\ isStrongPassword(resp.request.password)
    /\ Len(SelectByEmail(resp.request.email)) > 0
    /\ SelectByEmail(resp.request.email)[1].reset_token_hash = NoHash
    /\ ~comparePassword(StrongPassword,
                        SelectByEmail(resp.request.email)[1].password_hash)

\* The account of email holds the digest of token with an expiry before now.
HoldsExpired(email, token) ==
    /\ Len(SelectByEmail(email)) > 0
    /\ SelectByEmail(email)[1].reset_token_hash = sha256(token)
    /\ SelectByEmail(email)[1].reset_expires # {}
    /\ DateOf(SelectByEmail(email)[1].reset_expires) < now

\* C7: a reset that presents the token whose digest the account holds, after
\* the expiry the account holds with it, is answered 400 by its first step,
\* which writes nothing: password_hash is as it was.  With a strong new
\* password the message is the one of an invalid or an expired token.
ExpiredTokenRejected ==
    [][\A h \in {1}, email \in Registrable, token \in ResetTokens,
          newPassword \in ResetPasswords :
        (HoldsExpired(email, token)
            /\ resetPasswordSelect(h, email, token, newPassword))
        => /\ resp'.status = 400
           /\ resp'.success = FALSE
           /\ users' = users
           /\ req'[h] = Idle
           /\ isStrongPassword(newPassword)
                => resp'.message.text \in {"Invalid or expired token.",
                                           "Reset token has expired."}
      ]_vars

\* A reset with a strong new password and the token whose digest the account
\* holds has just been answered 400, the expiry being in the past.
ExpiredTokenRejectedWitness ==
    /\ resp.request.op = "reset"
    /\ resp.status = 400
    /\ isStrongPassword(resp.request.password)
    /\ HoldsExpired(resp.request.email, resp.request.token)

\* C9: a request to register or to reset with a password that is not strong
\* is answered 400, and no account holds a password that is not strong.
WeakPasswordRejected ==
    /\ (/\ resp.request.op \in {"register", "reset"}
        /\ resp.request.password # NoPassword
        /\ ~isStrongPassword(resp.request.password))
        => resp.status = 400
    /\ \A i \in DOMAIN users :
            ~comparePassword(WeakPassword, users[i].password_hash)

(***************************************************************************)
(* Further properties of the behaviours of Lockout.                        *)
(***************************************************************************)
\* C11: a login that reads an account with a lock_until after now is
\* answered 423 by its first step, whatever the password and the counter:
\* the response is the same for the right and for a wrong password, the
\* handler ends without the locals of a password comparison, and the table
\* is as it was.
LockedLoginWritesNothing ==
    [][\A h \in Handlers, email \in Emails, password \in LoginPasswords :
        (/\ Len(SelectByEmail(email)) > 0
         /\ SelectByEmail(email)[1].lock_until # {}
         /\ DateOf(SelectByEmail(email)[1].lock_until) > now
         /\ loginUserSelect(h, email, password))
        => /\ users' = users
           /\ req'[h] = Idle
           /\ resp'.status = 423
           /\ resp'.message =
                Message(LockedText,
                        DateOf(SelectByEmail(email)[1].lock_until) - now)
           /\ resp'.data = NoData
           /\ resp'.notified = << >>
      ]_vars

\* A login with a wrong password has just been answered 423.
LockedLoginWritesNothingWitness ==
    /\ resp.request.op = "login"
    /\ resp.status = 423
    /\ Len(SelectByEmail(resp.request.email)) > 0
    /\ ~Correct(resp.request.email, resp.request.password)
    /\ DateOf(SelectByEmail(resp.request.email)[1].lock_until) > now
    /\ \A h \in Handlers : req[h] = Idle

\* C12: the response to a login for an email without an account, and the
\* 401 to a login for an account whose counter the failure leaves below
\* MAX_FAILED_ATTEMPTS, have the same status and the same message.
LoginFailureUniform ==
    (/\ resp.request.op = "login"
     /\ resp.request.email # NoEmail
     /\ resp.request.password # NoPassword)
    => /\ Len(SelectByEmail(resp.request.email)) = 0
            => /\ resp.status = 401
               /\ resp.message = Message(InvalidCredentialsText, 0)
       /\ (/\ Len(SelectByEmail(resp.request.email)) > 0
           /\ resp.status = 401
           /\ SelectByEmail(resp.request.email)[1].failed_login_attempts
                < MAX_FAILED_ATTEMPTS)
            => resp.message = Message(InvalidCredentialsText, 0)

\* C13: the failed login whose UPDATE brings the counter to
\* MAX_FAILED_ATTEMPTS is answered 423, and a failed login that leaves the
\* counter below it is answered 401.
ThresholdLoginLocked ==
    [][\A h \in Handlers :
        (loginUserUpdate(h) /\ ~req[h].isMatch)
        => IF req[h].attempts >= MAX_FAILED_ATTEMPTS
           THEN resp'.status = 423
           ELSE resp'.status = 401
      ]_vars

(***************************************************************************)
(* Further properties of the behaviours of Recovery.                       *)
(***************************************************************************)
\* C14: a forgotPassword that supplies a backup address which is not, up to
\* case, the one the account holds writes nothing: the token columns are as
\* they were.
BackupMismatchKeepsToken ==
    [][\A h \in {1} :
        (/\ forgotPasswordUpdate(h)
         /\ req[h].request.backupEmail # NoEmail
         /\ toLowerCase(req[h].rows[1].backup_email)
                # toLowerCase(req[h].request.backupEmail))
        => users' = users
      ]_vars

(***************************************************************************)
(* Registration and unlock, of the behaviours of Lockout.                  *)
(***************************************************************************)
\* No two rows of the table t hold the same email.
OneAccountPerEmail(t) ==
    \A i \in DOMAIN t, j \in DOMAIN t : t[i].email = t[j].email => i = j

\* C15: in every state, whatever the handlers interleave, no two accounts
\* hold the same email; a registration that finds an account of its email
\* is answered 409 and writes nothing; and a registration whose INSERT finds
\* the email taken by a registration that overtook it fails and writes
\* nothing.
RegisterUnique ==
    /\ OneAccountPerEmail(users)
    /\ [][/\ OneAccountPerEmail(users')
          /\ \A h \in Handlers :
                /\ \A email \in Registrable, password \in LoginPasswords :
                    (/\ Len(SelectByEmail(email)) > 0
                     /\ registerUserSelect(h, email, password, NoEmail))
                    => /\ resp'.status = 409
                       /\ resp'.success = FALSE
                       /\ users' = users
                       /\ req'[h] = Idle
                /\ (/\ registerUserInsert(h)
                    /\ \E i \in DOMAIN users :
                          users[i].email = req[h].request.email)
                    => /\ resp'.success = FALSE
                       /\ resp'.status >= 400
                       /\ users' = users
         ]_vars

\* Of two registrations of one email that both passed the SELECT, the
\* second has just failed at its INSERT, and the account is the first's.
RegisterUniqueWitness ==
    /\ resp.request.op = "register"
    /\ resp.status = 500
    /\ Len(SelectByEmail(resp.request.email)) = 1
    /\ ~comparePassword(resp.request.password,
                        SelectByEmail(resp.request.email)[1].password_hash)

\* C17: the UPDATE of unlockAccount changes no row of another email, so none
\* at all for an email without an account; it changes nothing either when
\* the account's counter is 0 and its lock_until NULL already, and applying
\* it again to its own result gives that result; and the last step of
\* unlockAccount answers 200 and writes nothing, for an email without an
\* account too, then without a notification.
UnlockIdempotentTotal ==
    [][\A h \in Handlers :
        /\ \A email \in Emails :
            unlockAccountUpdate(h, email)
            => /\ \A i \in DOMAIN users :
                    users[i].email # email => users'[i] = users[i]
               /\ Len(SelectByEmail(email)) = 0 => users' = users
               /\ (\A i \in DOMAIN users :
                      users[i].email = email
                      => /\ users[i].failed_login_attempts = 0
                         /\ users[i].lock_until = {})
                    => users' = users
               /\ UnlockByEmail(email)' = users'
               /\ req'[h].pc = "select"
        /\ unlockAccountSelect(h)
            => /\ resp'.status = 200
               /\ resp'.success
               /\ users' = users
               /\ Len(SelectByEmail(req[h].request.email)) = 0
                    => resp'.notified = << >>
      ]_vars

\* An unlock for an email without an account has just been answered 200
\* without a notification, and the locked account of another email is
\* locked still.
UnlockIdempotentTotalWitness ==
    /\ resp.request.op = "unlock"
    /\ resp.status = 200
    /\ resp.notified = << >>
    /\ Len(SelectByEmail(resp.request.email)) = 0
    /\ \E i \in DOMAIN users :
          /\ users[i].lock_until # {}
          /\ users[i].failed_login_attempts >= MAX_FAILED_ATTEMPTS

(***************************************************************************)
(* Interleaved logins, of the behaviours of Lockout.                       *)
(***************************************************************************)
\* C20: the UPDATE of a failed login writes the counter its handler read
\* plus one, whatever the counter has become since: when another failed
\* login that read the same counter has written in between, the UPDATE
\* leaves the counter as that one left it, one above what both read.
LostUpdate ==
    [][\A h \in Handlers :
        (loginUserUpdate(h) /\ ~req[h].isMatch)
        => LET read == req[h].rows[1]
               before == RowById(users, read.id)
               after == RowById(users', read.id)
           IN  /\ req[h].attempts = read.failed_login_attempts + 1
               /\ after.failed_login_attempts = req[h].attempts
               /\ before.failed_login_attempts = req[h].attempts
                    => after.failed_login_attempts
                            = before.failed_login_attempts
      ]_vars

\* Two failed logins read the same counter of an account without a lock;
\* the first has just written it plus one and been answered, and the second
\* is about to write the same value.
LostUpdateWitness ==
    \E h \in Handlers :
        /\ LoginPending(h)
        /\ ~req[h].isMatch
        /\ req[h].rows[1].lock_until = {}
        /\ resp.request.op = "login"
        /\ resp.status = 401
        /\ resp.request.email = req[h].request.email
        /\ RowById(users, req[h].rows[1].id).failed_login_attempts
                = req[h].attempts
        /\ req[h].attempts = req[h].rows[1].failed_login_attempts + 1

(***************************************************************************)
(* Notifications and delivery, of the behaviours of Service.               *)
(***************************************************************************)
\* The response r without the record of its notification.
Plain(r) == [r EXCEPT !.notified = << >>]

\* C16: the last step of each of the five operations writes the table and
\* sends the response that its handler's locals determine, whether the
\* INSERT of the notification succeeded or failed and whether the link was
\* delivered or not: only the notification record and the mail differ.
NotifierFailureHarmless ==
    [][\A h \in {1} :
        LET f == req[h]
        IN  /\ (registerUserInsert(h) /\ ~UniqueViolation(f.request.email))
                => /\ Len(users') = Len(users) + 1
                   /\ Plain(resp') = sendResponse(f.request, 201, TRUE,
                            "User registered successfully.", NoData)
            /\ (loginUserUpdate(h) /\ f.isMatch)
                => /\ users' = UpdateLockout(f.rows[1].id, 0, {})
                   /\ Plain(resp') = sendResponse(f.request, 200, TRUE,
                            "Login successful.",
                            generateAccessToken(f.rows[1]))
            /\ forgotPasswordUpdate(h)
                => /\ users' = UpdateResetToken(f.rows[1].id, f.hashed,
                                                f.stamp)
                   /\ resp'.status = 200
                   /\ resp'.success
                   /\ variant = "backup"
                        => Plain(resp') = sendResponse(f.request, 200, TRUE,
                                                GenericText, NoData)
            /\ resetPasswordUpdate(h)
                => /\ users' = UpdatePassword(f.rows[1].id, f.hashed)
                   /\ Plain(resp') = sendResponse(f.request, 200, TRUE,
                            "Password reset successful.", NoData)
            /\ unlockAccountSelect(h)
                => /\ users' = users
                   /\ Plain(resp') = sendResponse(f.request, 200, TRUE,
                            "Account unlocked successfully.", NoData)
      ]_vars

\* A forgotPassword for the primary address of an account has just been
\* answered 200 with the token written, although the link was not delivered
\* and the notification was not recorded.
NotifierFailureHarmlessWitness ==
    /\ variant = "backup"
    /\ resp.request.op = "forgot"
    /\ resp.request.backupEmail = NoEmail
    /\ resp.status = 200
    /\ resp.notified = << >>
    /\ Len(SelectByEmail(resp.request.email)) > 0
    /\ SelectByEmail(resp.request.email)[1].reset_token_hash = sha256(issued)
    /\ ResetLink(issued, resp.request.email) \notin mail

(***************************************************************************)
(* The stored secrets, of the behaviours of Credentials.                   *)
(***************************************************************************)
\* C18: in every state, the password_hash of every account is a digest of
\* the password hasher, of a password that was submitted, and never a
\* password itself; and its reset_token_hash is NULL or the sha256 digest
\* of a token that forgotPassword issued, never the token itself.
NoPlaintextStored ==
    \A i \in DOMAIN users :
        /\ Len(users[i].password_hash) = 2
        /\ users[i].password_hash[1] = "bcrypt"
        /\ users[i].password_hash[2] \in Passwords
        /\ users[i].password_hash \notin Passwords
        /\ \/ users[i].reset_token_hash = NoHash
           \/ /\ Len(users[i].reset_token_hash) = 2
              /\ users[i].reset_token_hash[1] = "sha256"
              /\ users[i].reset_token_hash[2] \in 1..issued

\* A changePassword has just been answered 200: the account holds the
\* digest of the new password, after a reset had replaced the one of its
\* registration, and the digest of the token of a forgotPassword.
NoPlaintextStoredWitness ==
    /\ resp.request.op = "change"
    /\ resp.status = 200
    /\ consumed # {}
    /\ \E i \in DOMAIN users :
          /\ users[i].email = resp.request.email
          /\ users[i].password_hash = bcryptHash(resp.request.password)
          /\ users[i].reset_token_hash = sha256(issued)

(***************************************************************************)
(* The reset-token columns under interleaving, of the behaviours of Race.  *)
(***************************************************************************)
\* The token columns of every row of the table t are both NULL or both set.
Paired(t) ==
    \A i \in DOMAIN t :
        (t[i].reset_token_hash = NoHash) <=> (t[i].reset_expires = {})

\* C19: in every state, whatever the handlers interleave, reset_token_hash
\* and reset_expires of an account are both NULL or both set; the UPDATE of
\* forgotPassword sets both, and the UPDATE of resetPassword clears both
\* and replaces password_hash.
ResetColumnsPaired ==
    /\ Paired(users)
    /\ [][/\ Paired(users')
          /\ \A h \in Handlers :
                /\ forgotPasswordUpdate(h)
                    => LET after == RowById(users', req[h].rows[1].id)
                       IN  /\ after.reset_token_hash = req[h].hashed
                           /\ after.reset_token_hash # NoHash
                           /\ after.reset_expires = req[h].stamp
                           /\ after.reset_expires # {}
                /\ resetPasswordUpdate(h)
                    => LET after == RowById(users', req[h].rows[1].id)
                       IN  /\ after.reset_token_hash = NoHash
                           /\ after.reset_expires = {}
                           /\ after.password_hash = req[h].hashed
         ]_vars

\* An account holds a token and its expiry again after a reset had cleared
\* both, while a handler is about to write.
ResetColumnsPairedWitness ==
    /\ consumed # {}
    /\ \E h \in Handlers : req[h].pc = "update"
    /\ \E i \in DOMAIN users :
          /\ users[i].reset_token_hash # NoHash
          /\ users[i].reset_expires # {}

(***************************************************************************)
(* The lockout policy, of the behaviours of Lockout.                       *)
(***************************************************************************)
\* C21: a login with a wrong password that reads an account without a lock
\* in force and with a counter of n computes n + 1 and, exactly when n + 1
\* is MAX_FAILED_ATTEMPTS or more, a lock of now + LOCK_DURATION_SECONDS,
\* and NULL otherwise; and its UPDATE writes the two values it computed.
FailureTransition ==
    [][\A h \in Handlers :
        /\ \A email \in Emails, password \in LoginPasswords :
            (/\ Len(SelectByEmail(email)) > 0
             /\ ~Correct(email, password)
             /\ ~(SelectByEmail(email)[1].lock_until # {}
                    /\ DateOf(SelectByEmail(email)[1].lock_until) > now)
             /\ loginUserSelect(h, email, password))
            => LET n == SelectByEmail(email)[1].failed_login_attempts
               IN  /\ users' = users
                   /\ req'[h].pc = "update"
                   /\ ~req'[h].isMatch
                   /\ req'[h].attempts = n + 1
                   /\ req'[h].stamp =
                        IF n + 1 >= MAX_FAILED_ATTEMPTS
                        THEN {now + LOCK_DURATION_SECONDS} ELSE {}
        /\ (loginUserUpdate(h) /\ ~req[h].isMatch)
            => LET after == RowById(users', req[h].rows[1].id)
               IN  /\ after.failed_login_attempts = req[h].attempts
                   /\ after.lock_until = req[h].stamp
                   /\ resp'.status = 401
      ]_vars

\* The first login of an account, with a wrong password, has just been
\* answered 401: the counter is 1 and there is no lock.
FailureTransitionWitness ==
    /\ resp.request.op = "login"
    /\ resp.status = 401
    /\ ticks = 0
    /\ \A h \in Handlers : req[h] = Idle
    /\ Len(SelectByEmail(resp.request.email)) > 0
    /\ SelectByEmail(resp.request.email)[1].failed_login_attempts = 1
    /\ SelectByEmail(resp.request.email)[1].lock_until = {}

(***************************************************************************)
(* The life of a reset token, of the behaviours of Recovery.               *)
(***************************************************************************)
\* The account of email holds the digest of token, and an expiry.
Holds(email, token) ==
    /\ Len(SelectByEmail(email)) > 0
    /\ SelectByEmail(email)[1].reset_token_hash = sha256(token)
    /\ SelectByEmail(email)[1].reset_expires # {}

\* C22: a reset that presents the token whose digest the account holds, at
\* the instant of the expiry the account holds with it or later, is answered
\* 400 by its first step and goes no further.
ExpiryExclusive ==
    [][\A h \in {1}, email \in Registrable, token \in ResetTokens,
          newPassword \in ResetPasswords :
        (/\ Holds(email, token)
         /\ now >= DateOf(SelectByEmail(email)[1].reset_expires)
         /\ resetPasswordSelect(h, email, token, newPassword))
        => /\ resp'.status = 400
           /\ req'[h] = Idle
      ]_vars

\* C23: a reset goes on to its UPDATE only when the account it selected
\* holds the digest of the presented token with an expiry later than now;
\* the UPDATE writes the password of that account, which still holds the
\* digest, and of no other; a reset answered 400 leaves every row as it was.
ResetOnlyWithValidToken ==
    [][\A h \in {1} :
        /\ \A email \in Registrable, token \in ResetTokens,
              newPassword \in ResetPasswords :
              resetPasswordSelect(h, email, token, newPassword)
              => /\ users' = users
                 /\ req'[h].pc = "update"
                    => /\ Len(req'[h].rows) = 1
                       /\ \E i \in DOMAIN users : users[i] = req'[h].rows[1]
                       /\ req'[h].rows[1].reset_token_hash = sha256(token)
                       /\ now < DateOf(req'[h].rows[1].reset_expires)
                 /\ req'[h].pc # "update" => resp'.status = 400
        /\ resetPasswordUpdate(h)
           => /\ RowById(users, req[h].rows[1].id).reset_token_hash
                    = sha256(req[h].request.token)
              /\ \A i \in DOMAIN users :
                    users[i].id # req[h].rows[1].id => users'[i] = users[i]
      ]_vars

(***************************************************************************)
(* Concurrent resets, of the behaviours of Race.                           *)
(***************************************************************************)
\* C24: of the resets that present one token, at most one writes the
\* password: no reset reaches its UPDATE with a token that the UPDATE of
\* another reset has used already.
ConcurrentResetSingleUse ==
    [][\A h \in Handlers :
        resetPasswordUpdate(h) => req[h].request.token \notin consumed
      ]_vars

(***************************************************************************)
(* The reset link, of the behaviours of Shared.                            *)
(***************************************************************************)
\* The links that were delivered and whose token is still the one some
\* account holds, unexpired.
LiveLinks ==
    {link \in mail :
        \E i \in DOMAIN users :
            /\ users[i].reset_token_hash = sha256(link[2])
            /\ now < DateOf(users[i].reset_expires)}

\* C25: a reset that presents the address and the token of a delivered link
\* with a strong password, while the account the link was made for holds the
\* digest of that token, unexpired, goes on to the UPDATE of that account.
ResetLinkRoundTrip ==
    [][\A h \in {1}, link \in LiveLinks :
        resetPasswordSelect(h, link[3], link[2], OtherPassword)
        => /\ req'[h].pc = "update"
           /\ req'[h].rows[1].reset_token_hash = sha256(link[2])
      ]_vars

(***************************************************************************)
(* Successive reset tokens, of the behaviours of Recovery.                 *)
(***************************************************************************)
\* The account of email holds the digest of a token issued after token.
Superseded(email, token) ==
    /\ Len(SelectByEmail(email)) > 0
    /\ \E later \in (token + 1)..issued :
          SelectByEmail(email)[1].reset_token_hash = sha256(later)

\* C26: once a later forgotPassword has stored its token on an account, a
\* reset that presents a token issued earlier is answered 400 and writes
\* nothing, whether or not the earlier token has reached its expiry.
SupersededTokenRejected ==
    [][\A h \in {1}, email \in Registrable, token \in 1..MaxTokens,
          newPassword \in ResetPasswords :
        (Superseded(email, token)
         /\ resetPasswordSelect(h, email, token, newPassword))
        => /\ resp'.status = 400
           /\ req'[h] = Idle
           /\ users' = users
      ]_vars

\* The first token, never used and not yet expired, has just been rejected
\* for an account that holds the second.
SupersededTokenRejectedWitness ==
    /\ resp # NoResponse
    /\ resp.request.op = "reset"
    /\ resp.request.token = 1
    /\ resp.request.password = OtherPassword
    /\ resp.status = 400
    /\ ticks = 0
    /\ 1 \notin consumed
    /\ Superseded(resp.request.email, 1)

(***************************************************************************)
(* The counter after a lock, of the behaviours of Lockout.                 *)
(***************************************************************************)
\* The lock of the row has been set and is no longer in force.
LockExpired(user) == user.lock_until # {} /\ now' >= DateOf(user.lock_until)

\* C27: a row whose lock has expired still has a counter of
\* MAX_FAILED_ATTEMPTS or more; a login with a wrong password that reads such
\* a row computes a counter above MAX_FAILED_ATTEMPTS and a lock of now +
\* LOCK_DURATION_SECONDS; and its UPDATE writes both and answers 401.
LockExpiryKeepsCounter ==
    [][/\ \A i \in DOMAIN users' :
            LockExpired(users'[i])
            => users'[i].failed_login_attempts >= MAX_FAILED_ATTEMPTS
       /\ \A h \in Handlers :
            /\ \A email \in Emails, password \in LoginPasswords :
                (/\ Len(SelectByEmail(email)) > 0
                 /\ ~Correct(email, password)
                 /\ SelectByEmail(email)[1].lock_until # {}
                 /\ now >= DateOf(SelectByEmail(email)[1].lock_until)
                 /\ loginUserSelect(h, email, password))
                => /\ req'[h].pc = "update"
                   /\ ~req'[h].isMatch
                   /\ req'[h].attempts
                        = SelectByEmail(email)[1].failed_login_attempts + 1
                   /\ req'[h].attempts > MAX_FAILED_ATTEMPTS
                   /\ req'[h].stamp = {now + LOCK_DURATION_SECONDS}
            /\ (/\ LoginPending(h)
                /\ ~req[h].isMatch
                /\ req[h].rows[1].lock_until # {}
                /\ loginUserUpdate(h))
                => /\ resp'.status = 401
                   /\ RowById(users', req[h].rows[1].id).failed_login_attempts
                        = req[h].attempts
                   /\ RowById(users', req[h].rows[1].id).failed_login_attempts
                        > MAX_FAILED_ATTEMPTS
                   /\ RowById(users', req[h].rows[1].id).lock_until
                        = req[h].stamp
      ]_vars

\* After a lock has run out, one wrong password has set the counter to
\* MAX_FAILED_ATTEMPTS + 1 and a new lock.
LockExpiryKeepsCounterWitness ==
    /\ resp # NoResponse
    /\ resp.request.op = "login"
    /\ resp.status = 401
    /\ ticks >= 1
    /\ \A h \in Handlers : req[h] = Idle
    /\ Len(users) = 1
    /\ users[1].failed_login_attempts = MAX_FAILED_ATTEMPTS + 1
    /\ users[1].lock_until = {now + LOCK_DURATION_SECONDS}

(***************************************************************************)
(* Concurrent guesses, of the behaviours of Guessing.                      *)
(***************************************************************************)
\* The logins other than h that have compared a wrong password and have not
\* yet written the counter.
Uncounted(h) ==
    {g \in Handlers \ {h} : LoginPending(g) /\ ~req[g].isMatch}

\* C28: on an account that has never been locked, the wrong passwords
\* compared so far are at least those the counter records and those whose
\* UPDATE is still to come; a further wrong password is compared only while
\* it is, with them, within MAX_FAILED_ATTEMPTS.
GuessesBounded ==
    [][\A h \in Handlers, email \in Emails :
        (/\ Len(SelectByEmail(email)) > 0
         /\ SelectByEmail(email)[1].lock_until = {}
         /\ loginUserSelect(h, email, OtherPassword)
         /\ req'[h].pc = "update")
        => SelectByEmail(email)[1].failed_login_attempts
              + Cardinality(Uncounted(h)) + 1 <= MAX_FAILED_ATTEMPTS
      ]_vars

(***************************************************************************)
(* Writes that cross a reset of the counter, of the behaviours of Lockout. *)
(***************************************************************************)
\* The login of h compared a wrong password against a row whose counter
\* was above 0, and the row has since been reset.
ReadBeforeReset(h) ==
    /\ LoginPending(h)
    /\ ~req[h].isMatch
    /\ req[h].rows[1].failed_login_attempts > 0
    /\ RowById(users, req[h].rows[1].id).failed_login_attempts = 0
    /\ RowById(users, req[h].rows[1].id).lock_until = {}

\* C29: the UPDATE of a failed login that read the row before a reset of
\* the counter does not write what it computed from the counter it read: it
\* counts at most one attempt since the reset and sets no lock.
ResetNotUndone ==
    [][\A h \in Handlers :
        (ReadBeforeReset(h) /\ loginUserUpdate(h))
        => /\ RowById(users', req[h].rows[1].id).failed_login_attempts <= 1
           /\ RowById(users', req[h].rows[1].id).lock_until = {}
      ]_vars

(***************************************************************************)
(* The two groups of columns, of the behaviours of Service.                *)
(***************************************************************************)
\* The lockout columns of every row are in t2 as they are in t1.
SameLockout(t1, t2) ==
    /\ DOMAIN t1 = DOMAIN t2
    /\ \A i \in DOMAIN t1 :
          /\ t2[i].failed_login_attempts = t1[i].failed_login_attempts
          /\ t2[i].lock_until = t1[i].lock_until

\* The password and the reset columns of every row are in t2 as in t1.
SameCredentials(t1, t2) ==
    /\ DOMAIN t1 = DOMAIN t2
    /\ \A i \in DOMAIN t1 :
          /\ t2[i].password_hash = t1[i].password_hash
          /\ t2[i].reset_token_hash = t1[i].reset_token_hash
          /\ t2[i].reset_expires = t1[i].reset_expires

\* C30: the UPDATEs of forgotPassword and resetPassword leave
\* failed_login_attempts and lock_until of every row as they were, and the
\* UPDATEs of loginUser and unlockAccount leave password_hash,
\* reset_token_hash and reset_expires of every row as they were.
ColumnGroupsIndependent ==
    [][\A h \in {1} :
        /\ (forgotPasswordUpdate(h) \/ resetPasswordUpdate(h))
            => SameLockout(users, users')
        /\ (\/ loginUserUpdate(h)
            \/ \E email \in Emails : unlockAccountUpdate(h, email))
            => SameCredentials(users, users')
      ]_vars

\* The password of a locked account has been reset, and the account is
\* still locked.
ColumnGroupsIndependentWitness ==
    /\ resp # NoResponse
    /\ resp.request.op = "reset"
    /\ resp.status = 200
    /\ Len(users) = 1
    /\ users[1].failed_login_attempts = MAX_FAILED_ATTEMPTS
    /\ IsLocked(users[1])
    /\ users[1].password_hash = hashPassword(OtherPassword)
    /\ users[1].reset_token_hash = NoHash

=============================================================================
